---- MODULE Spec2Model ----
(***************************************************************************)
(* Model of the plugin reloader of SublimerLog (src/reloader/reloader.py): *)
(* unload_plugin, _gather_package_modules, reload_plugin, reload_plugins   *)
(* and reload_from_settings, acting on the process-wide module cache       *)
(* (sys.modules), the host hooks of sublime_plugin and the Packages        *)
(* folder.                                                                 *)
(*                                                                         *)
(* A string is a tuple of one-character strings, so that startswith,       *)
(* endswith, count("."), split(".") and ".".join are computed character by *)
(* character, as Python computes them.                                     *)
(*                                                                         *)
(* The host and the interpreter are the environment: every hook, every     *)
(* import, invalidate_caches, packages_path and the access to the package  *)
(* folder may succeed or raise.  A successful import (or named reload)     *)
(* puts the module and its parent packages into sys.modules; the teardown  *)
(* and registration hooks leave sys.modules alone.  Inside the reloader    *)
(* log() only prints and is left out.                                      *)
(*                                                                         *)
(* The second part models the console capture (src/console/capture.py)     *)
(* and the life cycle of the plugin (src/SublimerLog.py, the listener of   *)
(* src/listeners/event_listener.py and get_listener_instance of            *)
(* src/commands/plugin_commands.py): sys.stdout and sys.stderr, the        *)
(* streams kept as originals, and the log files as lists of appended       *)
(* chunks.  A stream is a tuple: the host stream, or a ConsoleCapture as   *)
(* its log file path followed by the stream it wraps.  There print and     *)
(* log() are writes to sys.stdout.                                         *)
(***************************************************************************)
EXTENDS Integers, Sequences, FiniteSets, TLC

----------------------------------------------------------------------------
(* Bounds of the model *)

\* greatest number of files in the Packages folder
MaxFiles == 2
\* greatest length of the list handed to reload_plugins
MaxBatch == 2
\* greatest length of the list stored under the settings key
MaxSettings == 1
\* greatest number of chunks in a log file
MaxLog == 4

----------------------------------------------------------------------------
(* Strings *)

DOT == "."

\* code point order of the characters in use (Python compares str by code point)
Ord(c) ==
    CASE c = "." -> 46
      [] c = "a" -> 97
      [] c = "b" -> 98
      [] c = "p" -> 112
      [] c = "t" -> 116
      [] c = "x" -> 120
      [] c = "y" -> 121

\* name.startswith(pre)
StartsWith(s, pre) ==
    /\ Len(pre) <= Len(s)
    /\ SubSeq(s, 1, Len(pre)) = pre

\* name.endswith(suf)
EndsWith(s, suf) ==
    /\ Len(suf) <= Len(s)
    /\ SubSeq(s, Len(s) - Len(suf) + 1, Len(s)) = suf

\* n.count(".")
CountDots(s) == Cardinality({i \in DOMAIN s : s[i] = DOT})

\* s.find(".") as a 1-based index, 0 when there is no dot
FirstDot(s) ==
    IF \E i \in DOMAIN s : s[i] = DOT
    THEN CHOOSE i \in DOMAIN s : s[i] = DOT /\ \A j \in 1..(i - 1) : s[j] # DOT
    ELSE 0

\* s.rfind(".") as a 1-based index, 0 when there is no dot
LastDot(s) ==
    IF \E i \in DOMAIN s : s[i] = DOT
    THEN CHOOSE i \in DOMAIN s : s[i] = DOT /\ \A j \in (i + 1)..Len(s) : s[j] # DOT
    ELSE 0

RECURSIVE Split(_)
\* n.split("."): the list of segments, empty segments kept
Split(s) ==
    IF FirstDot(s) = 0 THEN <<s>>
    ELSE <<SubSeq(s, 1, FirstDot(s) - 1)>> \o Split(SubSeq(s, FirstDot(s) + 1, Len(s)))

RECURSIVE Join(_)
\* ".".join(parts)
Join(parts) ==
    IF Len(parts) = 0 THEN <<>>
    ELSE IF Len(parts) = 1 THEN parts[1]
    ELSE parts[1] \o <<DOT>> \o Join(Tail(parts))

RECURSIVE StrLess(_, _)
\* a < b for two str (lexicographic by code point)
StrLess(a, b) ==
    IF Len(a) = 0 THEN Len(b) > 0
    ELSE IF Len(b) = 0 THEN FALSE
    ELSE IF a[1] # b[1] THEN Ord(a[1]) < Ord(b[1])
    ELSE StrLess(Tail(a), Tail(b))

RECURSIVE ListLess(_, _)
\* a < b for two lists of str (lexicographic by element)
ListLess(a, b) ==
    IF Len(a) = 0 THEN Len(b) > 0
    ELSE IF Len(b) = 0 THEN FALSE
    ELSE IF a[1] # b[1] THEN StrLess(a[1], b[1])
    ELSE ListLess(Tail(a), Tail(b))

\* faulty variant: the prefix test without the "." after the target
MatchesMutPrefix(name, target) == StartsWith(name, target)

\* name == target or name.startswith(target + ".")
Matches(name, target) == name = target \/ StartsWith(name, target \o <<DOT>>)

----------------------------------------------------------------------------
(* Sorting *)

RECURSIVE Perms(_)
\* every listing of the finite set S without repetition
Perms(S) ==
    IF S = {} THEN {<<>>}
    ELSE UNION {{<<x>> \o t : t \in Perms(S \ {x})} : x \in S}

\* faulty variant: the sort without reverse=True
UnloadOrderMutAscending(S) ==
    {s \in Perms(S) :
        \A i, j \in DOMAIN s : i < j => CountDots(s[i]) <= CountDots(s[j])}

\* names.sort(key=lambda n: n.count("."), reverse=True): the sort is stable, so
\* names of equal depth keep the order of sys.modules.keys(), which the model
\* leaves open
UnloadOrder(S) ==
    {s \in Perms(S) :
        \A i, j \in DOMAIN s : i < j => CountDots(s[i]) >= CountDots(s[j])}

RECURSIVE SortedStr(_)
\* sorted(plugin_modules)
SortedStr(S) ==
    IF S = {} THEN <<>>
    ELSE LET m == CHOOSE x \in S : \A y \in S \ {x} : StrLess(x, y)
         IN  <<m>> \o SortedStr(S \ {m})

RECURSIVE ImportOrderMutDescending(_)
\* faulty variant: the sort in descending order
ImportOrderMutDescending(S) ==
    IF S = {} THEN <<>>
    ELSE LET m == CHOOSE x \in S : \A y \in S \ {x} : ListLess(Split(y), Split(x))
         IN  <<m>> \o ImportOrderMutDescending(S \ {m})

RECURSIVE ImportOrder(_)
\* sorted(all_modules, key=lambda n: n.split("."))
ImportOrder(S) ==
    IF S = {} THEN <<>>
    ELSE LET m == CHOOSE x \in S : \A y \in S \ {x} : ListLess(Split(x), Split(y))
         IN  <<m>> \o ImportOrder(S \ {m})

----------------------------------------------------------------------------
(* The Packages folder: a file is the tuple of the segments of its path     *)
(* relative to sublime.packages_path()                                      *)

PY == <<".", "p", "y">>

\* Path(rel).suffix of a file name (pathlib: the text from the last dot on,
\* unless that dot is the first or the last character)
Suffix(fname) ==
    IF LastDot(fname) > 1 /\ LastDot(fname) < Len(fname)
    THEN SubSeq(fname, LastDot(fname), Len(fname))
    ELSE <<>>

\* Path(rel).with_suffix("").parts
ModParts(f) ==
    [i \in DOMAIN f |->
        IF i = Len(f) THEN SubSeq(f[i], 1, Len(f[i]) - Len(Suffix(f[i]))) ELSE f[i]]

\* ".".join(mod_parts)
ModuleName(f) == Join(ModParts(f))

\* the files os.walk(os.path.join(packages_path, package)) yields
WalkFiles(files, package) == {f \in files : Len(f) >= 2 /\ f[1] = package}

\* os.path.isdir(os.path.join(packages_path, package))
IsDir(files, package) == WalkFiles(files, package) # {}

\* the source files among them: fname.endswith(".py")
SourceFiles(files, package) ==
    {f \in WalkFiles(files, package) : EndsWith(f[Len(f)], PY)}

----------------------------------------------------------------------------
(* _gather_package_modules *)

\* the members of sys.modules that belong to the package
CacheModules(mods, package) == {name \in mods : Matches(name, package)}

\* the modules the scan of the package folder finds
FolderModules(files, package) == {ModuleName(f) : f \in SourceFiles(files, package)}

\* faulty variant: the test len(mod_parts) == 2 left out
TopLevelFilesMutAny(files, package) == SourceFiles(files, package)

\* the files whose relative path has exactly two parts
TopLevelFiles(files, package) ==
    {f \in SourceFiles(files, package) : Len(ModParts(f)) = 2}

\* faulty variant: the folder is scanned although packages_path() gave no path
GatherAllMutNoRootTest(mods, files, package, rootOk) ==
    {package} \cup CacheModules(mods, package)
              \cup (IF IsDir(files, package)
                    THEN FolderModules(files, package) ELSE {})

\* all_modules; rootOk: sublime.packages_path() returned a path (it did not
\* raise, and the path is not empty)
GatherAll(mods, files, package, rootOk) ==
    {package} \cup CacheModules(mods, package)
              \cup (IF rootOk /\ IsDir(files, package)
                    THEN FolderModules(files, package) ELSE {})

\* faulty variant: the direct children found in sys.modules count as plugin
\* modules too
GatherPluginsMutCacheChildren(mods, files, package, rootOk) ==
    {package} \cup {name \in CacheModules(mods, package) :
                        CountDots(name) = CountDots(package) + 1}
              \cup (IF rootOk /\ IsDir(files, package)
                    THEN {ModuleName(f) : f \in TopLevelFiles(files, package)}
                    ELSE {})

\* plugin_modules: the package and the files directly under its folder
GatherPlugins(mods, files, package, rootOk) ==
    {package} \cup (IF rootOk /\ IsDir(files, package)
                    THEN {ModuleName(f) : f \in TopLevelFiles(files, package)}
                    ELSE {})

----------------------------------------------------------------------------
(* State *)

VARIABLES
    cache,              \* the keys of sys.modules
    fs,                 \* the files of the Packages folder
    entry,              \* the public function the host called
    pc,                 \* the statement the call has reached
    target,             \* the target / entry being handled
    candidates,         \* unload_candidates / candidates: names still to delete
    all_modules,        \* reload_plugin: all_modules
    plugin_modules,     \* reload_plugin: plugin_modules
    modules_to_import,  \* reload_plugin: names still to import
    plugins,            \* reload_plugin: sorted(plugin_modules) still to visit
    loaded_any,         \* reload_plugin: loaded_any
    plugin_names,       \* reload_plugins: the list it was given
    idx,                \* reload_plugins: index of the next entry
    success,            \* reload_plugins: success of the current entry
    walk,               \* reload_plugins: files of the fallback walk still to visit
    result,             \* what the finished call returned
    escaped,            \* an exception left the public function
    calls,              \* the calls on the host and the cache made by the last step
    cache0,             \* sys.modules when the current target's turn began
    tornDown,           \* names handed to sublime_plugin.unload_module in this turn
    stage,              \* reload_plugin: the furthest phase a call has reached
    succeeded,          \* reload_plugin: an import or a hook call has succeeded
    hooked,             \* reload_plugin: the plugin modules the second loop has visited
    fallback,           \* reload_plugins: how far the fallback of this entry got
    invoked,            \* reload_plugins: the calls of unload_plugin / reload_plugin
    reloaded,           \* reload_plugins: the names the fallback called the named
                        \* reload for, for this entry
    hookRaised,         \* unload_plugin: the teardown hook raised
    unloaded,           \* the target of the call before, when that was unload_plugin
    sys_stdout,         \* sys.stdout
    sys_stderr,         \* sys.stderr
    original_stdout,    \* ConsoleCapture._original_stdout
    original_stderr,    \* ConsoleCapture._original_stderr
    setup_complete,     \* ConsoleCapture._setup_complete
    listener_instance,  \* SublimerLog._listener_instance
    console_capture_setup,  \* SublimerLog._console_capture_setup
    fn_original,        \* the attributes original_stdout / original_stderr of
                        \* SublimerLog._setup_console_capture
    getter,             \* plugin_commands._get_listener_instance
    phase,              \* how far the host is with the plugin: "fresh" (imported),
                        \* "loaded" (plugin_loaded called), "unloaded"
    settings,           \* the settings of the plugin, as its settings files give them
    log_files,          \* the content of the log file and of its backup, by path
    op,                 \* the console operation the last step ran
    ret,                \* what it returned, or the exception it raised
    effects             \* the writes it made, in order

locals == <<candidates, all_modules, plugin_modules, modules_to_import, plugins, loaded_any>>
batch == <<plugin_names, idx, success, walk>>
seen == <<succeeded, hooked, fallback, reloaded>>
streams == <<sys_stdout, sys_stderr>>
capture == <<original_stdout, original_stderr, setup_complete>>
lifecycle == <<listener_instance, console_capture_setup, fn_original, getter, phase>>
console == <<streams, capture, lifecycle, settings, log_files, op, ret, effects>>
reloader == <<cache, fs, entry, pc, target, candidates, all_modules, plugin_modules,
              modules_to_import, plugins, loaded_any, plugin_names, idx, success, walk,
              result, escaped, calls, cache0, tornDown, stage, succeeded, hooked,
              fallback, invoked, reloaded, hookRaised, unloaded>>
vars == <<cache, fs, entry, pc, target, candidates, all_modules, plugin_modules,
          modules_to_import, plugins, loaded_any, plugin_names, idx, success, walk,
          result, escaped, calls, cache0, tornDown, stage, succeeded, hooked,
          fallback, invoked, reloaded, hookRaised, unloaded, sys_stdout, sys_stderr,
          original_stdout, original_stderr, setup_complete, listener_instance,
          console_capture_setup, fn_original, getter, phase, settings, log_files, op,
          ret, effects>>

\* module names
N_P == <<"p">>
N_PA == <<"p", ".", "a">>
N_PB == <<"p", ".", "b">>
N_PAB == <<"p", ".", "a", ".", "b">>
N_PX == <<"p", "x">>

\* files: p/a.py, p/a/b.py, p/a.b.py, p/b.t and p.a/b.py
F_A == <<N_P, <<"a", ".", "p", "y">>>>
F_A_B == <<N_P, <<"a">>, <<"b", ".", "p", "y">>>>
F_ADOTB == <<N_P, <<"a", ".", "b", ".", "p", "y">>>>
F_T == <<N_P, <<"b", ".", "t">>>>
F_PA_B == <<N_PA, <<"b", ".", "p", "y">>>>

Names == {N_P, N_PA, N_PB, N_PAB, N_PX}
Files == {F_A, F_A_B, F_ADOTB, F_T, F_PA_B}
Targets == {N_P, N_PA}

\* the entries of a list: a str, or another object (123)
StrEntry(s) == [str |-> TRUE, s |-> s]
Entries == {StrEntry(N_P), StrEntry(N_PA), StrEntry(<<>>), [str |-> FALSE, s |-> <<>>]}

Call(kind, name, ok) == [kind |-> kind, name |-> name, ok |-> ok]

\* the lists of at most n entries
Lists(n) == UNION {[1..k -> Entries] : k \in 0..n}

\* the folders of at most MaxFiles files
Folders(files) == {F \in SUBSET files : Cardinality(F) <= MaxFiles}

\* the log file of the plugin (sublimer-log.sublime-settings), the log file of
\* ConsoleCapture.setup_console_capture (SublimerLog.sublime-settings) and the
\* backup of the latter, each at the default of its setting
PLUGIN_LOG == "~/sublimer-log.txt"
CAPTURE_LOG == "~/.sublimer-log.txt"
CAPTURE_BAK == "~/.sublimer-log.txt.bak"
Paths == {PLUGIN_LOG, CAPTURE_LOG, CAPTURE_BAK}

\* a stream is None, a stream of the host, or a ConsoleCapture around a stream
NoStream == <<>>
HostOut == <<"stdout">>
HostErr == <<"stderr">>

\* ConsoleCapture(original_stream, log_file_path)
Capture(original_stream, log_file_path) == <<log_file_path>> \o original_stream

\* isinstance(s, ConsoleCapture), s.original_stream and s.log_file_path
IsCapture(s) == s # <<>> /\ Head(s) \in Paths
OriginalStream(s) == Tail(s)
LogFilePath(s) == Head(s)

\* bool(s) of a stream or None
Truthy(s) == s # NoStream

\* no listener yet; a listener with its enable_file_logging and, once
\* _setup_file_logging has stored them, its original_stdout / original_stderr
NoListener == [made |-> FALSE, enable_file_logging |-> FALSE, original |-> <<>>]
Listener(enabled, original) ==
    [made |-> TRUE, enable_file_logging |-> enabled, original |-> original]

\* a file is its content: the chunks appended to it, oldest first (a file that
\* does not exist has none)
NoFiles == [p \in Paths |-> <<>>]

\* what the last step did on the console: the function, and for a write the
\* stream written to and the text
Op(name, stream, text) == [name |-> name, stream |-> stream, text |-> text]

\* the defaults of enable_file_logging, rewrite_log_file and
\* show_console_on_startup
DefaultSettings ==
    [enable_file_logging |-> TRUE, rewrite_log_file |-> TRUE,
     show_console_on_startup |-> FALSE]

\* the plugin just imported: nothing set up, nothing written
ConsoleFresh ==
    /\ original_stdout = NoStream
    /\ original_stderr = NoStream
    /\ setup_complete = FALSE
    /\ listener_instance = NoListener
    /\ console_capture_setup = FALSE
    /\ fn_original = <<>>
    /\ getter = "None"
    /\ phase = "fresh"
    /\ op = Op("none", <<>>, <<>>)
    /\ ret = "none"
    /\ effects = <<>>

\* the console as the host starts it: its own streams, the default settings,
\* no log file
ConsoleInit ==
    /\ sys_stdout = HostOut
    /\ sys_stderr = HostErr
    /\ settings = DefaultSettings
    /\ log_files = NoFiles
    /\ ConsoleFresh

\* the state in which no call is in progress
Cleared ==
    /\ target = <<>>
    /\ candidates = <<>>
    /\ all_modules = {}
    /\ plugin_modules = {}
    /\ modules_to_import = <<>>
    /\ plugins = <<>>
    /\ loaded_any = FALSE
    /\ plugin_names = <<>>
    /\ idx = 0
    /\ success = "none"
    /\ walk = {}
    /\ result = "none"
    /\ escaped = FALSE
    /\ calls = <<>>
    /\ cache0 = {}
    /\ tornDown = {}
    /\ stage = 0
    /\ succeeded = FALSE
    /\ hooked = {}
    /\ fallback = "none"
    /\ invoked = <<>>
    /\ reloaded = {}
    /\ hookRaised = FALSE

InitWith(names, files) ==
    /\ cache \in SUBSET names
    /\ fs \in Folders(files)
    /\ entry = "idle"
    /\ pc = "idle"
    /\ Cleared
    /\ unloaded = <<>>
    /\ ConsoleInit

\* a public function is called only when no call is in progress (the host
\* serializes plugin commands)
Callable == pc = "idle"

\* what a call starts from
Start(fn, t) ==
    /\ entry' = fn
    /\ target' = t
    /\ candidates' = <<>>
    /\ all_modules' = {}
    /\ plugin_modules' = {}
    /\ modules_to_import' = <<>>
    /\ plugins' = <<>>
    /\ loaded_any' = FALSE
    /\ success' = "none"
    /\ walk' = {}
    /\ result' = "none"
    /\ escaped' = FALSE
    /\ calls' = <<>>
    /\ cache0' = cache
    /\ tornDown' = {}
    /\ stage' = 0
    /\ succeeded' = FALSE
    /\ hooked' = {}
    /\ fallback' = "none"
    /\ reloaded' = {}
    /\ hookRaised' = FALSE
    /\ UNCHANGED <<cache, fs, unloaded, console>>

----------------------------------------------------------------------------
(* unload_plugin *)

\* the host calls unload_plugin(t)
CallUnload ==
    /\ Callable
    /\ \E t \in Targets : Start("unload", t)
    /\ pc' = "u_teardown"
    /\ plugin_names' = <<>>
    /\ idx' = 0
    /\ invoked' = <<>>

\* faulty variant: the target itself is not among the names to delete
UnloadCandidatesMutChildren(mods, t) ==
    {name \in mods : StartsWith(name, t \o <<DOT>>)}

\* the names unload_plugin is to delete
UnloadCandidates(mods, t) == CacheModules(mods, t)

\* step 1, and the list of candidates step 2 starts from
UnloadTeardown ==
    /\ pc = "u_teardown"
    /\ IF target \in cache
       THEN /\ \E ok \in BOOLEAN :
                  /\ calls' = <<Call("teardown", target, ok)>>
                  /\ hookRaised' = ~ok
            /\ tornDown' = tornDown \cup {target}
       ELSE /\ calls' = <<>>
            /\ UNCHANGED <<tornDown, hookRaised>>
    /\ candidates' \in UnloadOrder(UnloadCandidates(cache, target))
    /\ pc' = "u_delete"
    /\ UNCHANGED <<unloaded, console, cache, fs, entry, target, all_modules, plugin_modules,
                   modules_to_import, plugins, loaded_any, batch, result, escaped,
                   cache0, seen, stage, invoked>>

\* one turn of the loop of step 2 (of unload_plugin and of reload_plugin)
DeleteHead ==
    /\ candidates # <<>>
    /\ cache' = cache \ {Head(candidates)}
    /\ calls' = IF Head(candidates) \in cache
                THEN <<Call("delete", Head(candidates), TRUE)>> ELSE <<>>
    /\ candidates' = Tail(candidates)

UnloadDelete ==
    /\ pc = "u_delete"
    /\ DeleteHead
    /\ UNCHANGED <<hookRaised, unloaded, console, fs, entry, pc, target, all_modules, plugin_modules,
                   modules_to_import, plugins, loaded_any, batch, result, escaped,
                   cache0, seen, tornDown, stage, invoked>>

\* step 3, and the return: to the host, or to reload_plugins, which goes on to
\* call reload_plugin
UnloadInvalidate ==
    /\ pc = "u_delete"
    /\ candidates = <<>>
    /\ \E ok \in BOOLEAN : calls' = <<Call("invalidate", <<>>, ok)>>
    /\ IF entry = "unload"
       THEN pc' = "done" /\ result' = "None" /\ UNCHANGED invoked
       ELSE /\ pc' = "r_scan"
            /\ invoked' = Append(invoked, <<"reload_plugin", target>>)
            /\ UNCHANGED result
    /\ UNCHANGED <<hookRaised, unloaded, console, cache, fs, entry, target, locals, batch, escaped,
                   cache0, seen, tornDown, stage>>

----------------------------------------------------------------------------
(* reload_plugin *)

\* the str of a Python bool
Py(b) == IF b THEN "True" ELSE "False"

Max(a, b) == IF a >= b THEN a ELSE b

\* the phase of reload_plugin a call belongs to
Rank(kind) ==
    CASE kind = "teardown" -> 1
      [] kind = "delete" -> 2
      [] kind = "invalidate" -> 3
      [] kind = "import" -> 4
      [] kind \in {"register", "named"} -> 5
      [] OTHER -> 0

\* the host calls reload_plugin(t)
CallReloadOne ==
    /\ Callable
    /\ \E t \in Targets : Start("reload_one", t)
    /\ pc' = "r_scan"
    /\ plugin_names' = <<>>
    /\ idx' = 0
    /\ invoked' = <<>>

\* faulty variant: the fallback without the test of success
ReturnFromReloadMutAlways(b) ==
    IF entry = "reload_one"
    THEN pc' = "done" /\ result' = Py(b) /\ UNCHANGED success
    ELSE /\ success' = Py(b)
         /\ pc' = "m_fallback"
         /\ UNCHANGED result

\* faulty variant: a False result parks the reloader in a state FAILED
ReturnFromReloadMutStuck(b) ==
    IF b
    THEN /\ IF entry = "reload_one"
            THEN pc' = "done" /\ result' = Py(b) /\ UNCHANGED success
            ELSE success' = Py(b) /\ pc' = "m_next" /\ UNCHANGED result
    ELSE pc' = "failed" /\ UNCHANGED <<result, success>>

\* reload_plugin returns b: to the host, or to reload_plugins, which runs its
\* fallback when b is false
ReturnFromReload(b) ==
    IF entry = "reload_one"
    THEN pc' = "done" /\ result' = Py(b) /\ UNCHANGED success
    ELSE /\ success' = Py(b)
         /\ pc' = IF b THEN "m_next" ELSE "m_fallback"
         /\ UNCHANGED result

\* step 1: _gather_package_modules; an exception of the walk of the package
\* folder (os.path.isdir raises nothing: there is a walk only of a folder that
\* exists) makes reload_plugin return False
ReloadScan ==
    /\ pc = "r_scan"
    /\ \E lookup \in {"path", "none", "raise"}, scanOk \in BOOLEAN :
          IF lookup = "path" /\ ~scanOk
          THEN /\ IsDir(fs, target)
               /\ calls' = <<Call("root", target, TRUE), Call("scan", target, FALSE)>>
               /\ ReturnFromReload(FALSE)
               /\ UNCHANGED <<all_modules, plugin_modules, plugins>>
          ELSE /\ scanOk
               /\ calls' = <<Call("root", target, lookup = "path"),
                              Call("scan", target, TRUE)>>
               /\ all_modules' = GatherAll(cache, fs, target, lookup = "path")
               /\ plugin_modules' = GatherPlugins(cache, fs, target, lookup = "path")
               /\ plugins' = SortedStr(plugin_modules')
               /\ pc' = "r_teardown"
               /\ UNCHANGED <<result, success>>
    /\ UNCHANGED <<hookRaised, unloaded, console, cache, fs, entry, target, candidates, modules_to_import,
                   loaded_any, plugin_names, idx, walk, escaped, cache0, seen, tornDown,
                   stage, invoked>>

\* faulty variant: only the names without a dot are deleted
ReloadCandidatesMutRootOnly(mods, all) == {name \in mods \cap all : CountDots(name) = 0}

\* the names reload_plugin is to delete
ReloadCandidates(mods, all) == {name \in mods : name \in all}

\* step 2: one turn of the loop over sorted(plugin_modules); after the last
\* turn, the list of candidates step 3 starts from
ReloadTeardown ==
    /\ pc = "r_teardown"
    /\ plugins # <<>>
    /\ IF Head(plugins) \in cache
       THEN /\ \E ok \in BOOLEAN : calls' = <<Call("teardown", Head(plugins), ok)>>
            /\ tornDown' = tornDown \cup {Head(plugins)}
            /\ stage' = Max(stage, Rank("teardown"))
       ELSE /\ calls' = <<>>
            /\ UNCHANGED <<tornDown, stage>>
    /\ plugins' = Tail(plugins)
    /\ IF Tail(plugins) = <<>>
       THEN /\ candidates' \in UnloadOrder(ReloadCandidates(cache, all_modules))
            /\ pc' = "r_delete"
       ELSE UNCHANGED <<candidates, pc>>
    /\ UNCHANGED <<hookRaised, unloaded, console, cache, fs, entry, target, all_modules, plugin_modules,
                   modules_to_import, loaded_any, batch, result, escaped, cache0, seen,
                   invoked>>

\* step 3: one turn of the loop over candidates
ReloadDelete ==
    /\ pc = "r_delete"
    /\ DeleteHead
    /\ stage' = IF calls' # <<>> THEN Max(stage, Rank("delete")) ELSE stage
    /\ UNCHANGED <<hookRaised, unloaded, console, fs, entry, pc, target, all_modules, plugin_modules,
                   modules_to_import, plugins, loaded_any, batch, result, escaped,
                   cache0, seen, tornDown, invoked>>

\* importlib.invalidate_caches(), and the list step 4 starts from
ReloadInvalidate ==
    /\ pc = "r_delete"
    /\ candidates = <<>>
    /\ \E ok \in BOOLEAN : calls' = <<Call("invalidate", <<>>, ok)>>
    /\ stage' = Max(stage, Rank("invalidate"))
    /\ modules_to_import' = ImportOrder(all_modules)
    /\ loaded_any' = FALSE
    /\ pc' = "r_import"
    /\ UNCHANGED <<hookRaised, unloaded, console, cache, fs, entry, target, candidates, all_modules, plugin_modules,
                   plugins, batch, result, escaped, cache0, seen, tornDown, invoked>>

\* what importlib.import_module(name) leaves in sys.modules when it succeeds:
\* the module and the packages it lies in
Imported(name) ==
    {Join(SubSeq(Split(name), 1, k)) : k \in 1..Len(Split(name))}

\* importlib.import_module(name) returns at once for a name in sys.modules, and
\* may raise for any other
ImportOutcomes(mods, name) == IF name \in mods THEN {TRUE} ELSE {TRUE, FALSE}

\* step 4, first loop: one import; after the last one, the list the second loop
\* starts from
ReloadImport ==
    /\ pc = "r_import"
    /\ modules_to_import # <<>>
    /\ \E ok \in ImportOutcomes(cache, Head(modules_to_import)) :
          /\ calls' = <<Call("import", Head(modules_to_import), ok)>>
          /\ cache' = IF ok THEN cache \cup Imported(Head(modules_to_import)) ELSE cache
          /\ loaded_any' = (loaded_any \/ ok)
          /\ succeeded' = (succeeded \/ ok)
    /\ stage' = Max(stage, Rank("import"))
    /\ modules_to_import' = Tail(modules_to_import)
    /\ IF Tail(modules_to_import) = <<>>
       THEN plugins' = SortedStr(plugin_modules) /\ pc' = "r_hooks"
       ELSE UNCHANGED <<plugins, pc>>
    /\ UNCHANGED <<hookRaised, unloaded, console, fs, entry, target, candidates, all_modules, plugin_modules,
                   batch, result, escaped, cache0, hooked, fallback, reloaded,
                   tornDown, invoked>>

\* faulty variant: the named reload also after a registration that succeeded
HookAttemptsMutAlwaysNamed(plugin, present) ==
    IF present
    THEN {<<Call("register", plugin, ok), Call("named", plugin, nm)>> : ok, nm \in BOOLEAN}
    ELSE {<<Call("named", plugin, nm)>> : nm \in BOOLEAN}

\* the calls one turn of the second loop may make for a plugin module, by
\* whether sys.modules.get(plugin) finds it
HookAttempts(plugin, present) ==
    IF present
    THEN {<<Call("register", plugin, TRUE)>>}
         \cup {<<Call("register", plugin, FALSE), Call("named", plugin, nm)>> :
                  nm \in BOOLEAN}
    ELSE {<<Call("named", plugin, nm)>> : nm \in BOOLEAN}

\* one of the calls succeeded
AnyOk(cs) == \E i \in DOMAIN cs : cs[i].ok

\* sublime_plugin.reload_plugin(name) imports the module when it succeeds
NamedLoaded(cs) ==
    UNION {Imported(cs[i].name) : i \in {j \in DOMAIN cs : cs[j].kind = "named" /\ cs[j].ok}}

\* faulty variant: loaded_any overwritten instead of accumulated
LoadedAnyMutLast(before, cs) == AnyOk(cs)

\* loaded_any after one turn of the second loop
LoadedAny(before, cs) == before \/ AnyOk(cs)

\* step 4, second loop: one turn; after the last one, return loaded_any
ReloadHook ==
    /\ pc = "r_hooks"
    /\ plugins # <<>>
    /\ \E cs \in HookAttempts(Head(plugins), Head(plugins) \in cache) :
          /\ calls' = cs
          /\ cache' = cache \cup NamedLoaded(cs)
          /\ loaded_any' = LoadedAny(loaded_any, cs)
          /\ succeeded' = (succeeded \/ AnyOk(cs))
          /\ hooked' = hooked \cup {cs[i].name : i \in DOMAIN cs}
    /\ stage' = Max(stage, Rank("register"))
    /\ plugins' = Tail(plugins)
    /\ IF Tail(plugins) = <<>>
       THEN ReturnFromReload(loaded_any')
       ELSE UNCHANGED <<pc, result, success>>
    /\ UNCHANGED <<hookRaised, unloaded, console, fs, entry, target, candidates, all_modules, plugin_modules,
                   modules_to_import, plugin_names, idx, walk, escaped, cache0, fallback,
                   reloaded, tornDown, invoked>>

----------------------------------------------------------------------------
(* reload_plugins and reload_from_settings *)

\* the host calls reload_plugins(l)
CallReloadMany ==
    /\ Callable
    /\ \E l \in Lists(MaxBatch) : plugin_names' = l
    /\ Start("reload_many", <<>>)
    /\ pc' = "m_next"
    /\ idx' = 1
    /\ invoked' = <<>>

\* the host calls reload_from_settings(): load_settings raises or the value is
\* no list (it returns), or the list goes to reload_plugins(entries, True)
CallSettings ==
    /\ Callable
    /\ Start("settings", <<>>)
    /\ invoked' = <<>>
    /\ \/ /\ plugin_names' = <<>>
          /\ idx' = 0
          /\ pc' = "s_return"
       \/ /\ \E l \in Lists(MaxSettings) : plugin_names' = l
          /\ idx' = 1
          /\ pc' = "m_next"

\* reload_from_settings returns without a list to reload
SettingsReturn ==
    /\ pc = "s_return"
    /\ pc' = "done"
    /\ result' = "None"
    /\ calls' = <<>>
    /\ UNCHANGED <<hookRaised, unloaded, console, cache, fs, entry, target, locals, batch, escaped, cache0, seen,
                   tornDown, stage, invoked>>

\* not entry or not isinstance(entry, str)
Invalid(e) == e.s = <<>> \/ ~e.str

\* the head of the loop over plugin_names: return after the last entry, skip
\* an invalid entry, or call unload_plugin(entry)
BatchNext ==
    /\ pc = "m_next"
    /\ IF idx > Len(plugin_names)
       THEN /\ pc' = "done"
            /\ result' = "None"
            /\ calls' = <<>>
            /\ UNCHANGED <<target, locals, idx, success, cache0, seen, tornDown, stage,
                           invoked>>
       ELSE IF Invalid(plugin_names[idx])
       THEN /\ idx' = idx + 1
            /\ calls' = <<Call("skip", <<>>, TRUE)>>
            /\ UNCHANGED <<pc, result, target, locals, success, cache0, seen, tornDown,
                           stage, invoked>>
       ELSE /\ idx' = idx + 1
            /\ target' = plugin_names[idx].s
            /\ pc' = "u_teardown"
            /\ invoked' = Append(invoked, <<"unload_plugin", plugin_names[idx].s>>)
            /\ calls' = <<>>
            /\ candidates' = <<>>
            /\ all_modules' = {}
            /\ plugin_modules' = {}
            /\ modules_to_import' = <<>>
            /\ plugins' = <<>>
            /\ loaded_any' = FALSE
            /\ success' = "none"
            /\ cache0' = cache
            /\ tornDown' = {}
            /\ stage' = 0
            /\ succeeded' = FALSE
            /\ hooked' = {}
            /\ fallback' = "none"
            /\ reloaded' = {}
            /\ UNCHANGED result
    /\ UNCHANGED <<cache, fs, entry, plugin_names, walk, escaped, hookRaised,
                   unloaded, console>>

\* an exception leaves reload_plugins: it reaches the host, unless
\* reload_from_settings made the call and catches it
BatchRaise ==
    /\ pc' = "done"
    /\ IF entry = "reload_many"
       THEN escaped' = TRUE /\ result' = "raised"
       ELSE escaped' = FALSE /\ result' = "None"

\* the fallback after reload_plugin returned False: the Packages path, the test
\* of the package folder and the start of the walk
BatchFallback ==
    /\ pc = "m_fallback"
    /\ \E lookup \in {"path", "none", "raise"}, fsOk \in BOOLEAN :
          /\ calls' = <<Call("fb_root", target, lookup = "path")>>
          /\ IF lookup # "path"
             THEN /\ fsOk
                  /\ fallback' = "noroot"
                  /\ pc' = "m_next"
                  /\ UNCHANGED <<walk, escaped, result>>
             ELSE IF ~fsOk
             THEN /\ IsDir(fs, target)
                  /\ fallback' = "raised"
                  /\ BatchRaise
                  /\ UNCHANGED walk
             ELSE IF IsDir(fs, target)
             THEN /\ fallback' = "walked"
                  /\ walk' = WalkFiles(fs, target)
                  /\ pc' = "m_walk"
                  /\ UNCHANGED <<escaped, result>>
             ELSE /\ fallback' = "nodir"
                  /\ pc' = "m_next"
                  /\ UNCHANGED <<walk, escaped, result>>
    /\ UNCHANGED <<hookRaised, unloaded, console, cache, fs, entry, target, locals, plugin_names, idx, success,
                   cache0, succeeded, hooked, reloaded, tornDown, stage, invoked>>

\* the calls the fallback makes for one source file
WalkAttempts(mods, name) ==
    {<<Call("fb_import", name, imp), Call("fb_named", name, nm)>> :
        imp \in ImportOutcomes(mods, name), nm \in BOOLEAN}

\* one file of the walk: a source file gets its module name (os.path.relpath,
\* Path.with_suffix: outside the try, so a raise of theirs leaves
\* reload_plugins), then the import and the named reload; any other file is
\* passed over
BatchWalk ==
    /\ pc = "m_walk"
    /\ \E f \in walk :
          /\ walk' = walk \ {f}
          /\ IF EndsWith(f[Len(f)], PY)
             THEN \/ /\ calls' = <<Call("fb_path", ModuleName(f), FALSE)>>
                     /\ fallback' = "raised"
                     /\ BatchRaise
                     /\ UNCHANGED <<cache, reloaded>>
                  \/ \E cs \in WalkAttempts(cache, ModuleName(f)) :
                        /\ calls' = cs
                        /\ cache' = cache \cup (IF AnyOk(cs) THEN Imported(ModuleName(f))
                                                ELSE {})
                        /\ reloaded' = reloaded \cup {ModuleName(f)}
                        /\ pc' = IF walk' = {} THEN "m_next" ELSE "m_walk"
                        /\ UNCHANGED <<fallback, result, escaped>>
             ELSE /\ calls' = <<>>
                  /\ pc' = IF walk' = {} THEN "m_next" ELSE "m_walk"
                  /\ UNCHANGED <<cache, fallback, reloaded, result, escaped>>
    /\ UNCHANGED <<hookRaised, unloaded, console, fs, entry, target, locals,
                   plugin_names, idx, success, cache0, succeeded, hooked, tornDown,
                   stage, invoked>>

\* the finished call is over: nothing of it is kept
Return ==
    /\ pc = "done"
    /\ pc' = "idle"
    /\ entry' = "idle"
    /\ target' = <<>>
    /\ candidates' = <<>>
    /\ all_modules' = {}
    /\ plugin_modules' = {}
    /\ modules_to_import' = <<>>
    /\ plugins' = <<>>
    /\ loaded_any' = FALSE
    /\ plugin_names' = <<>>
    /\ idx' = 0
    /\ success' = "none"
    /\ walk' = {}
    /\ result' = "none"
    /\ escaped' = FALSE
    /\ calls' = <<>>
    /\ cache0' = {}
    /\ tornDown' = {}
    /\ stage' = 0
    /\ succeeded' = FALSE
    /\ hooked' = {}
    /\ fallback' = "none"
    /\ invoked' = <<>>
    /\ reloaded' = {}
    /\ hookRaised' = FALSE
    /\ unloaded' = IF entry = "unload" THEN target ELSE <<>>
    /\ UNCHANGED <<cache, fs, console>>

----------------------------------------------------------------------------
(* The console: ConsoleCapture (src/console/capture.py)                     *)
(*                                                                          *)
(* A text is a tuple of one-character strings; a log file is the list of    *)
(* the chunks appended to it.  Opening and writing a file, mkdir and the    *)
(* write of a host stream may raise.  What the plugin prints itself (log,   *)
(* print) is taken to reach the host stream.                                *)

NL == <<"\n">>
WHITESPACE == {" ", "\n"}

\* the texts written to a stream: "", " \n", "a" and "a\n"
Texts == {<<>>, <<" ", "\n">>, <<"a">>, <<"a", "\n">>}

\* a line the plugin prints (log adds "Sublimer Log: " and the time)
MSG == <<"m">>

RECURSIVE LStrip(_)
\* text.lstrip()
LStrip(text) ==
    IF text # <<>> /\ Head(text) \in WHITESPACE THEN LStrip(Tail(text)) ELSE text

RECURSIVE RStrip(_)
\* text.rstrip()
RStrip(text) ==
    IF text # <<>> /\ text[Len(text)] \in WHITESPACE
    THEN RStrip(SubSeq(text, 1, Len(text) - 1))
    ELSE text

\* text.strip()
Strip(text) == RStrip(LStrip(text))

\* what write sends to the file for text: the text, and "\n" unless the text
\* ends with one
Appended(text) == IF EndsWith(text, NL) THEN text ELSE text \o NL

\* what the append of text leaves in the file: nothing (open raised), the text
\* alone (the write of "\n" raised) or all of it
AppendOutcomes(text) == {<<>>, text, Appended(text)}

\* a write the last step made: on a host stream ("stream") or on a log file
\* ("file"); ok: it did not raise
Effect(kind, where, text, ok) ==
    [kind |-> kind, where |-> where, text |-> text, ok |-> ok]

\* the outcome of a call: the files after it, the writes it made, and whether
\* it returned
Outcome(files, effs, ok) == [files |-> files, effects |-> effs, ok |-> ok]

\* faulty variant: the log file is written before the original stream
WriteOutcomesMutFileFirst(s, text, files, hostOks) ==
    IF ~IsCapture(s)
    THEN {Outcome(files, <<Effect("stream", Head(s), text, ok)>>, ok) : ok \in hostOks}
    ELSE {Outcome([files EXCEPT ![LogFilePath(s)] = Append(@, Appended(text))],
                  <<Effect("file", LogFilePath(s), Appended(text), TRUE),
                    Effect("stream", Head(OriginalStream(s)), text, ok)>>,
                  ok) : ok \in hostOks}

RECURSIVE WriteOutcomes(_, _, _, _)
\* s.write(text) for a host stream (hostOks: whether it may raise) or a
\* ConsoleCapture: original_stream.write(text) first, an exception of which
\* leaves write; then, if text.strip() is not empty, the append to the log
\* file, an exception of which is passed over
WriteOutcomes(s, text, files, hostOks) ==
    IF ~IsCapture(s)
    THEN {Outcome(files, <<Effect("stream", Head(s), text, ok)>>, ok) : ok \in hostOks}
    ELSE UNION {
            IF ~o.ok \/ Strip(text) = <<>>
            THEN {o}
            ELSE {Outcome([o.files EXCEPT ![LogFilePath(s)] =
                              IF chunk = <<>> THEN @ ELSE Append(@, chunk)],
                          Append(o.effects,
                                 Effect("file", LogFilePath(s), chunk,
                                        chunk = Appended(text))),
                          TRUE) : chunk \in AppendOutcomes(text)}
            : o \in WriteOutcomes(OriginalStream(s), text, files, hostOks)}

\* print(text) on s: nothing when s is None, else s.write(text) and
\* s.write("\n")
PrintOutcomes(s, text, files) ==
    IF s = NoStream
    THEN {Outcome(files, <<>>, TRUE)}
    ELSE UNION {
            {Outcome(o2.files, o1.effects \o o2.effects, TRUE) :
                o2 \in WriteOutcomes(s, NL, o1.files, {TRUE})}
            : o1 \in WriteOutcomes(s, text, files, {TRUE})}

\* no log file has more than MaxLog chunks
Bounded(files) == \A p \in Paths : Len(files[p]) <= MaxLog

\* the backup of the log file when rewrite_log_file is set: the old backup is
\* deleted, the log file is copied to the backup and deleted; an exception
\* ends it at any of these points
BackupOutcomes(files, rewrite) ==
    IF ~rewrite THEN {files}
    ELSE {files,
          [files EXCEPT ![CAPTURE_BAK] = <<>>],
          [files EXCEPT ![CAPTURE_BAK] = files[CAPTURE_LOG]],
          [files EXCEPT ![CAPTURE_BAK] = files[CAPTURE_LOG], ![CAPTURE_LOG] = <<>>]}

\* ConsoleCapture.setup_console_capture()
CaptureSetup ==
    /\ op' = Op("setup", <<>>, <<>>)
    /\ IF setup_complete \/ ~settings.enable_file_logging
       THEN /\ ret' = Py(setup_complete)
            /\ effects' = <<>>
            /\ UNCHANGED <<streams, capture, log_files>>
       ELSE \E backed \in BackupOutcomes(log_files, settings.rewrite_log_file),
               mkdirOk \in BOOLEAN :
               LET out == IF original_stdout = NoStream THEN sys_stdout
                          ELSE original_stdout
                   err == IF original_stdout = NoStream THEN sys_stderr
                          ELSE original_stderr
               IN  IF ~mkdirOk
                   THEN /\ \E o \in PrintOutcomes(sys_stdout, MSG, backed) :
                              log_files' = o.files /\ effects' = o.effects
                        /\ ret' = "False"
                        /\ UNCHANGED <<streams, capture>>
                   ELSE /\ original_stdout' = out
                        /\ original_stderr' = err
                        /\ IF Truthy(out) /\ Truthy(err)
                           THEN /\ sys_stdout' = Capture(out, CAPTURE_LOG)
                                /\ sys_stderr' = Capture(err, CAPTURE_LOG)
                                /\ setup_complete' = TRUE
                                /\ ret' = "True"
                                /\ log_files' = backed
                                /\ effects' = <<>>
                           ELSE /\ \E o \in PrintOutcomes(sys_stdout, MSG, backed) :
                                      log_files' = o.files /\ effects' = o.effects
                                /\ ret' = "False"
                                /\ UNCHANGED <<streams, setup_complete>>
    /\ Bounded(log_files')
    /\ UNCHANGED <<reloader, lifecycle, settings>>

\* faulty variant: the flag is cleared, the streams stay as they are
CaptureCleanupMutKeep ==
    /\ op' = Op("cleanup", <<>>, <<>>)
    /\ ret' = "None"
    /\ effects' = <<>>
    /\ setup_complete' = FALSE
    /\ UNCHANGED <<reloader, streams, original_stdout, original_stderr, lifecycle,
                   settings, log_files>>

\* ConsoleCapture.cleanup_console_capture()
CaptureCleanup ==
    /\ op' = Op("cleanup", <<>>, <<>>)
    /\ ret' = "None"
    /\ effects' = <<>>
    /\ IF Truthy(original_stdout) /\ Truthy(original_stderr)
       THEN /\ sys_stdout' = original_stdout
            /\ sys_stderr' = original_stderr
            /\ setup_complete' = FALSE
            /\ UNCHANGED <<original_stdout, original_stderr>>
       ELSE UNCHANGED <<streams, capture>>
    /\ UNCHANGED <<reloader, lifecycle, settings, log_files>>

\* somebody calls sys.stdout.write(text) or sys.stderr.write(text)
StreamWrite ==
    /\ \E s \in {sys_stdout, sys_stderr}, text \in Texts :
          /\ Truthy(s)
          /\ op' = Op("write", s, text)
          /\ \E o \in WriteOutcomes(s, text, log_files, BOOLEAN) :
                /\ log_files' = o.files
                /\ effects' = o.effects
                /\ ret' = IF o.ok THEN "None" ELSE "raised"
    /\ Bounded(log_files')
    /\ UNCHANGED <<reloader, streams, capture, lifecycle, settings>>

----------------------------------------------------------------------------
(* The plugin: plugin_loaded / plugin_unloaded (src/SublimerLog.py), the    *)
(* listener (src/listeners/event_listener.py) and the listener lookup of    *)
(* the commands (src/commands/plugin_commands.py)                           *)

RECURSIVE PrintTimes(_, _, _)
\* n calls of log(...), each a print(...) on the stream s
PrintTimes(s, n, files) ==
    IF n = 0 THEN {Outcome(files, <<>>, TRUE)}
    ELSE UNION {
            {Outcome(o2.files, o1.effects \o o2.effects, TRUE) :
                o2 \in PrintTimes(s, n - 1, o1.files)}
            : o1 \in PrintOutcomes(s, MSG, files)}

\* callable(v) for the values _get_listener_instance takes: None, the function
\* get_listener_instance of the plugin, the listener object
IsCallable(v) == v = "get_listener_instance"

\* plugin_loaded(): get_listener_instance() makes the listener, whose
\* constructor (file logging enabled, mkdir succeeding) stores sys.stdout /
\* sys.stderr and replaces them by captures, logs two lines and calls
\* _setup_console_capture(), which stores sys.stdout / sys.stderr as it finds
\* them and replaces them by captures; then set_listener_getter(listener), and
\* a third log line if show_console_on_startup is set
PluginLoaded ==
    /\ phase = "fresh"
    /\ phase' = "loaded"
    /\ op' = Op("plugin_loaded", <<>>, <<>>)
    /\ ret' = "None"
    /\ \E mkdirListener, mkdirModule \in BOOLEAN :
          LET enabled == settings.enable_file_logging
              fresh == ~listener_instance.made
              \* SublimerLogListener.__init__
              wraps == fresh /\ enabled /\ mkdirListener
              listener == IF ~fresh THEN listener_instance
                          ELSE Listener(wraps, IF wraps THEN <<sys_stdout, sys_stderr>>
                                               ELSE <<>>)
              out1 == IF wraps THEN Capture(sys_stdout, PLUGIN_LOG) ELSE sys_stdout
              err1 == IF wraps THEN Capture(sys_stderr, PLUGIN_LOG) ELSE sys_stderr
              \* _setup_console_capture() of the plugin
              setsUp == fresh /\ ~console_capture_setup /\ enabled /\ mkdirModule
              stored == IF setsUp /\ fn_original = <<>> THEN <<out1, err1>>
                        ELSE fn_original
              out2 == IF setsUp THEN Capture(stored[1], PLUGIN_LOG) ELSE out1
              err2 == IF setsUp THEN Capture(stored[2], PLUGIN_LOG) ELSE err1
              failed1 == IF fresh /\ enabled /\ ~mkdirListener THEN 1 ELSE 0
              failed2 == IF fresh /\ ~console_capture_setup /\ enabled /\ ~mkdirModule
                         THEN 1 ELSE 0
              shown == IF settings.show_console_on_startup THEN 1 ELSE 0
          IN  /\ listener_instance' = listener
              /\ fn_original' = stored
              /\ console_capture_setup' = (console_capture_setup \/ setsUp)
              /\ sys_stdout' = out2
              /\ sys_stderr' = err2
              /\ getter' = "listener"
              /\ \E o1 \in PrintTimes(sys_stdout, failed1, log_files) :
                 \E o2 \in PrintTimes(out1, (IF fresh THEN 2 ELSE 0) + failed2, o1.files) :
                 \E o3 \in PrintTimes(out2, shown, o2.files) :
                    /\ log_files' = o3.files
                    /\ effects' = o1.effects \o o2.effects \o o3.effects
    /\ Bounded(log_files')
    /\ UNCHANGED <<reloader, capture, settings>>

\* plugin_unloaded(): a log line, then _cleanup_console_capture(), which puts
\* back the streams _setup_console_capture stored
PluginUnloaded ==
    /\ phase = "loaded"
    /\ phase' = "unloaded"
    /\ op' = Op("plugin_unloaded", <<>>, <<>>)
    /\ ret' = "None"
    /\ \E o \in PrintTimes(sys_stdout, 1, log_files) :
          /\ log_files' = o.files
          /\ effects' = o.effects
    /\ IF fn_original # <<>>
       THEN /\ sys_stdout' = fn_original[1]
            /\ sys_stderr' = fn_original[2]
            /\ console_capture_setup' = FALSE
       ELSE UNCHANGED <<streams, console_capture_setup>>
    /\ Bounded(log_files')
    /\ UNCHANGED <<reloader, capture, settings, listener_instance, fn_original,
                   getter>>

\* get_listener_instance() of the commands, as SublimerLogCommand.run and
\* show_plugin_order call it: RuntimeError without a getter, else the call
\* _get_listener_instance(), a TypeError when the value is not callable
CommandGetListener ==
    /\ op' = Op("get_listener_instance", <<>>, <<>>)
    /\ ret' = (IF getter = "None" THEN "RuntimeError"
               ELSE IF IsCallable(getter) THEN "listener"
               ELSE "TypeError")
    /\ effects' = <<>>
    /\ UNCHANGED <<reloader, streams, capture, lifecycle, settings, log_files>>

----------------------------------------------------------------------------
(* Specifications *)

Unload == UnloadTeardown \/ UnloadDelete \/ UnloadInvalidate

Reload == ReloadScan \/ ReloadTeardown \/ ReloadDelete \/ ReloadInvalidate
          \/ ReloadImport \/ ReloadHook

Batch == BatchNext \/ BatchFallback \/ BatchWalk

\* every public function, on a small cache and folder
Init == InitWith({N_P, N_PA, N_PAB}, {F_A, F_A_B, F_T})

Next ==
    \/ CallUnload \/ CallReloadOne \/ CallReloadMany \/ CallSettings
    \/ SettingsReturn
    \/ UnloadTeardown \/ UnloadDelete \/ UnloadInvalidate
    \/ ReloadScan \/ ReloadTeardown \/ ReloadDelete \/ ReloadInvalidate
    \/ ReloadImport \/ ReloadHook
    \/ BatchNext \/ BatchFallback \/ BatchWalk
    \/ Return

Spec == Init /\ [][Next]_vars

\* unload_plugin and reload_plugin alone, on every cache and folder
InitSingle == InitWith(Names, Files)

NextSingle ==
    \/ CallUnload \/ CallReloadOne
    \/ UnloadTeardown \/ UnloadDelete \/ UnloadInvalidate
    \/ ReloadScan \/ ReloadTeardown \/ ReloadDelete \/ ReloadInvalidate
    \/ ReloadImport \/ ReloadHook
    \/ Return

SpecSingle == InitSingle /\ [][NextSingle]_vars

\* the steps of a call in progress, and its return to the host
Step ==
    \/ UnloadTeardown \/ UnloadDelete \/ UnloadInvalidate
    \/ ReloadScan \/ ReloadTeardown \/ ReloadDelete \/ ReloadInvalidate
    \/ ReloadImport \/ ReloadHook
    \/ BatchNext \/ BatchFallback \/ BatchWalk
    \/ Return

\* reload_plugin and reload_plugins under the scheduling of the host, on a
\* package with one module
InitLive == InitWith({N_P, N_PA}, {F_A})

NextLive == CallReloadOne \/ CallReloadMany \/ Step

\* the reloader runs synchronously on the host's thread: nothing suspends a
\* call in progress, and every call it makes into the host or the interpreter
\* returns or raises, so a call that can take a step takes it; the host is
\* free to make a call or not
SpecLive == InitLive /\ [][NextLive]_vars /\ WF_vars(Step)

\* the reloader at rest, with nothing in sys.modules and in the Packages folder
ReloaderIdle ==
    /\ cache = {}
    /\ fs = {}
    /\ entry = "idle"
    /\ pc = "idle"
    /\ Cleared
    /\ unloaded = <<>>

\* ConsoleCapture alone: the host may have no stream (None) for stdout or
\* stderr, the two settings have any value, the log file is empty or left from
\* an earlier run
InitCapture ==
    /\ ReloaderIdle
    /\ sys_stdout \in {HostOut, NoStream}
    /\ sys_stderr \in {HostErr, NoStream}
    /\ settings \in [enable_file_logging : BOOLEAN, rewrite_log_file : BOOLEAN,
                      show_console_on_startup : {FALSE}]
    /\ log_files \in {NoFiles, [NoFiles EXCEPT ![CAPTURE_LOG] = <<Appended(MSG)>>]}
    /\ ConsoleFresh

NextCapture == CaptureSetup \/ CaptureCleanup \/ StreamWrite

SpecCapture == InitCapture /\ [][NextCapture]_vars

\* the life of the plugin in the host: imported, plugin_loaded, plugin_unloaded,
\* with writes on the streams and listener lookups of the commands at any time
InitPlugin ==
    /\ ReloaderIdle
    /\ sys_stdout = HostOut
    /\ sys_stderr = HostErr
    /\ settings \in [enable_file_logging : BOOLEAN, rewrite_log_file : {TRUE},
                      show_console_on_startup : BOOLEAN]
    /\ log_files = NoFiles
    /\ ConsoleFresh

NextPlugin == PluginLoaded \/ PluginUnloaded \/ CommandGetListener \/ StreamWrite

SpecPlugin == InitPlugin /\ [][NextPlugin]_vars

----------------------------------------------------------------------------
(* Properties *)

\* reload_plugins is running (called by the host or by reload_from_settings)
InBatch == entry \in {"reload_many", "settings"}

\* the names the last step deleted from sys.modules
Deleted == {calls[i].name : i \in {j \in DOMAIN calls : calls[j].kind = "delete"}}

\* the calls of the given kinds the last step made
CallsOf(kinds) == {i \in DOMAIN calls : calls[i].kind \in kinds}

\* name lies exactly one segment below t
DirectChild(name, t) ==
    Matches(name, t) /\ Len(Split(name)) = Len(Split(t)) + 1

\* C1: unload_plugin and the removal step of reload_plugin never delete a
\* cache entry while an entry of the target (the target itself or a name
\* starting with target + ".") with more dot-separated segments is still in
\* the cache
C1_DepthOrdering ==
    \A n \in Deleted :
        \A m \in cache : Matches(m, target) => CountDots(m) <= CountDots(n)

\* p.a.b is gone, p.a has just been deleted and p is still to go
C1_Witness ==
    /\ pc = "u_delete"
    /\ target = N_P
    /\ Deleted = {N_PA}
    /\ N_PAB \in cache0 \ cache
    /\ N_P \in cache

\* C2: no public function lets an exception reach its caller; each returns
\* its documented result (a bool for reload_plugin, None for the others)
C2_NoExceptionEscapes ==
    pc = "done" =>
        /\ ~escaped
        /\ IF entry = "reload_one" THEN result \in {"True", "False"}
           ELSE result = "None"

\* reload_plugins has finished with the current entry
TurnOver == InBatch /\ success # "none" /\ pc \in {"m_next", "done"}

\* C3 as stated: the walk of the package folder runs for an entry if and only
\* if reload_plugin returned False for it (entries whose fallback raised are
\* left aside)
C3_WalkIffFalse ==
    (TurnOver /\ fallback # "raised") =>
        (fallback = "walked" <=> success = "False")

\* C3 as amended: the fallback is entered (the Packages path is looked up) if
\* and only if reload_plugin returned False; the walk runs only then, and only
\* if the package folder exists; no fallback import or named reload is made
\* after reload_plugin returned True
C3_FallbackOnlyOnFailure ==
    /\ TurnOver => (fallback # "none" <=> success = "False")
    /\ pc \in {"m_fallback", "m_walk"} => success = "False"
    /\ CallsOf({"fb_root", "fb_import", "fb_named"}) # {} => success = "False"
    /\ fallback = "walked" => IsDir(fs, target)
    /\ fallback = "nodir" => ~IsDir(fs, target)

\* the walk has made its import and its named reload for a file
C3_Witness ==
    /\ TurnOver
    /\ success = "False"
    /\ fallback = "walked"
    /\ CallsOf({"fb_named"}) # {}

RECURSIVE Expected(_)
\* unload_plugin then reload_plugin for every valid entry of l, in order
Expected(l) ==
    IF l = <<>> THEN <<>>
    ELSE (IF Invalid(Head(l)) THEN <<>>
          ELSE <<<<"unload_plugin", Head(l).s>>, <<"reload_plugin", Head(l).s>>>>)
         \o Expected(Tail(l))

\* C4: reload_plugins calls unload_plugin then reload_plugin on exactly the
\* non-empty str entries of its list, in list order, whatever happens to the
\* earlier entries
C4_BatchOrder ==
    (pc = "done" /\ entry = "reload_many") => invoked = Expected(plugin_names)

\* the state reload_plugin is in when _gather_package_modules has returned
Scanned == pc = "r_teardown" /\ calls # <<>> /\ calls[1].kind = "root"

\* C5 as stated: the identifier derived from a source file is in
\* plugin_modules if and only if the path of that file has exactly two
\* segments or the identifier is the package name
C5_PerFileClassification ==
    (Scanned /\ calls[1].ok) =>
        \A f \in SourceFiles(fs, target) :
            ModuleName(f) \in plugin_modules
                <=> (Len(f) = 2 \/ ModuleName(f) = target)

\* C5 as amended: an identifier derived from the source files is in
\* plugin_modules if and only if it is the package name or one of the files
\* it is derived from has a path of exactly two segments
C5_Classification ==
    (Scanned /\ calls[1].ok) =>
        /\ \A f \in SourceFiles(fs, target) :
              ModuleName(f) \in plugin_modules
                  <=> \/ ModuleName(f) = target
                      \/ \E g \in SourceFiles(fs, target) :
                            ModuleName(g) = ModuleName(f) /\ Len(g) = 2
        /\ \A f \in SourceFiles(fs, target) : ModuleName(f) \in all_modules

\* the tree p/a.py, p/a/b.py: p.a and p.a.b are derived, {p, p.a} are plugins
C5_Witness ==
    /\ Scanned
    /\ calls[1].ok
    /\ target = N_P
    /\ fs = {F_A, F_A_B}
    /\ {N_PA, N_PAB} \subseteq all_modules
    /\ plugin_modules = {N_P, N_PA}

\* C6 as stated: plugin_modules is the set of the members of all_modules that
\* are the package or lie one segment below it
C6_AllDirectChildren ==
    Scanned =>
        /\ plugin_modules \subseteq all_modules
        /\ plugin_modules =
              {x \in all_modules : x = target \/ DirectChild(x, target)}

\* C6 as amended: plugin_modules is a subset of all_modules and consists of
\* the package and the identifiers of the source files found directly in the
\* package folder (paths of two segments); a direct child found in the cache
\* alone is in all_modules only
C6_PluginModules ==
    Scanned =>
        /\ plugin_modules \subseteq all_modules
        /\ plugin_modules =
              {target} \cup
              (IF calls[1].ok
               THEN {ModuleName(f) :
                       f \in {g \in fs : /\ Len(g) = 2
                                         /\ g[1] = target
                                         /\ EndsWith(g[2], PY)}}
               ELSE {})

\* p.a is a direct child known from the cache alone
C6_Witness ==
    /\ Scanned
    /\ target = N_P
    /\ N_PA \in cache
    /\ N_PA \in all_modules \ plugin_modules

\* C7: in a batch reload, a top-level plugin module (the package or a direct
\* child) that was in the cache when its package's turn began is handed to
\* the teardown hook before its cache entry is deleted
C7_TeardownBeforeRemoval ==
    InBatch =>
        \A n \in Deleted :
            (n \in cache0 /\ (n = target \/ DirectChild(n, target)))
                => n \in tornDown

\* the statements of reload_plugin after the scan
ReloadPcs == {"r_teardown", "r_delete", "r_import", "r_hooks"}

\* C8: inside reload_plugin no call belongs to an earlier phase than a call
\* already made (teardown hooks, then cache deletions, then the path-cache
\* invalidation, then imports, then registration and named-reload hooks), and
\* from the last deletion to the first import no member of all_modules is in
\* the cache
C8_PhaseOrdering ==
    [][/\ pc \in ReloadPcs =>
              \A i \in DOMAIN calls' : Rank(calls'[i].kind) >= stage
       /\ (\/ pc' = "r_delete" /\ candidates' = <<>>
           \/ pc' = "r_import" /\ stage' = Rank("invalidate")) =>
              all_modules' \cap cache' = {}]_vars

\* teardown and deletions are over, the caches are invalidated, no import yet
C8_Witness ==
    /\ pc = "r_import"
    /\ stage = Rank("invalidate")
    /\ tornDown # {}
    /\ Cardinality(cache0 \cap all_modules) >= 2
    /\ cache \cap all_modules = {}

\* C9: reload_plugin returns True if and only if an import, a registration
\* hook or a named-reload hook succeeded, and False otherwise (also when the
\* scan failed)
C9_LoaderResult ==
    (pc = "done" /\ entry = "reload_one") =>
        /\ result \in {"True", "False"}
        /\ result = "True" <=> succeeded

\* an import succeeded, every later hook call of the last plugin module failed
C9_Witness ==
    /\ pc = "done"
    /\ entry = "reload_one"
    /\ result = "True"
    /\ Len(calls) = 2
    /\ ~calls[1].ok
    /\ ~calls[2].ok

\* C10: in the second loop of step 4, a plugin module found in the cache gets
\* the registration hook, and the named-reload hook only if that raised; one
\* not in the cache gets the named-reload hook alone; and when the loop ends
\* every plugin module has had its turn, whatever the hooks of the others did
C10_HookDispatch ==
    [][pc = "r_hooks" =>
          /\ IF Head(plugins) \in cache
             THEN /\ calls'[1].kind = "register"
                  /\ calls'[1].name = Head(plugins)
                  /\ IF calls'[1].ok
                     THEN Len(calls') = 1
                     ELSE /\ Len(calls') = 2
                          /\ calls'[2].kind = "named"
                          /\ calls'[2].name = Head(plugins)
             ELSE /\ Len(calls') = 1
                  /\ calls'[1].kind = "named"
                  /\ calls'[1].name = Head(plugins)
          /\ pc' # "r_hooks" => hooked' = plugin_modules]_vars

\* every plugin module was visited, and the last one, found in the cache, got
\* the named-reload hook after its registration hook raised
C10_Witness ==
    /\ pc = "done"
    /\ entry = "reload_one"
    /\ Cardinality(hooked) >= 2
    /\ hooked = plugin_modules
    /\ Len(calls) = 2
    /\ calls[1].kind = "register"
    /\ ~calls[1].ok
    /\ calls[2].kind = "named"

\* C11: a second unload_plugin(target) right after the first completes without
\* error, deletes nothing, leaves the cache as the first call left it and does
\* not call the teardown hook
C11_UnloadIdempotent ==
    (entry = "unload" /\ unloaded = target) =>
        /\ cache = cache0
        /\ tornDown = {}
        /\ CallsOf({"teardown", "delete"}) = {}
        /\ ~escaped
        /\ pc = "done" => result = "None"

\* the second unload_plugin("p") in a row has returned; p was in the cache
\* neither time the second call looked, px is still there
C11_Witness ==
    /\ pc = "done"
    /\ entry = "unload"
    /\ unloaded = N_P
    /\ target = N_P
    /\ N_PX \in cache
    /\ result = "None"

\* C12: unload_plugin(target) removes from the cache exactly the entries equal
\* to target or starting with target + "." and leaves every other entry (also
\* one that only shares a prefix with target, as "px" for "p") in place,
\* whether or not the teardown hook raised
C12_ExactRemoval ==
    entry = "unload" =>
        /\ cache \subseteq cache0
        /\ \A n \in cache0 \ cache :
              n = target \/ StartsWith(n, target \o <<DOT>>)
        /\ pc = "done" =>
              cache = {n \in cache0 :
                          ~(n = target \/ StartsWith(n, target \o <<DOT>>))}

\* unload_plugin("p") has returned after its teardown hook raised: p and p.a
\* are gone, px is kept
C12_Witness ==
    /\ pc = "done"
    /\ entry = "unload"
    /\ target = N_P
    /\ hookRaised
    /\ {N_P, N_PA, N_PX} \subseteq cache0
    /\ cache = {N_PX}

\* C13: a reload_plugin call that has started runs on to its return of True
\* or False; every call (reload_plugins and the others too, whatever their
\* outcome) gives the control back to the host, which can then call
\* reload_plugin on any package again; and the scan of that call starts from
\* empty sets and takes in the entries of the package the cache holds then
C13_NoBlockingState ==
    /\ [](pc = "idle" => \A t \in Targets : ENABLED (CallReloadOne /\ target' = t))
    /\ (entry = "reload_one" /\ pc = "r_scan")
          ~> (entry = "reload_one" /\ pc = "done" /\ result \in {"True", "False"})
    /\ (pc # "idle") ~> (pc = "idle")
    /\ [][/\ pc' = "r_scan" => (all_modules' = {} /\ plugin_modules' = {})
          /\ (pc = "r_scan" /\ pc' = "r_teardown") =>
                /\ \A n \in cache :
                      (n = target \/ StartsWith(n, target \o <<DOT>>))
                          => n \in all_modules'
                /\ \A n \in all_modules' :
                      \/ n = target
                      \/ n \in cache
                      \/ \E f \in fs : ModuleName(f) = n]_vars

\* reload_plugin("p") has returned False and has left the package unloaded
C13_Witness ==
    /\ entry = "reload_one"
    /\ pc = "done"
    /\ result = "False"
    /\ target = N_P
    /\ {N_P, N_PA} \subseteq cache0
    /\ cache \cap all_modules = {}

\* C14: when sublime.packages_path() raises or returns nothing, or the package
\* folder does not exist, _gather_package_modules raises nothing and returns
\* all_modules = {package} and the cache entries equal to package or starting
\* with package + ".", and plugin_modules = {package}
C14_CacheOnlyScan ==
    /\ (Scanned /\ (~calls[1].ok \/ ~IsDir(fs, target))) =>
          /\ all_modules =
                {target} \cup {n \in cache :
                                  n = target \/ StartsWith(n, target \o <<DOT>>)}
          /\ plugin_modules = {target}
    /\ (Len(calls) = 2 /\ calls[2].kind = "scan" /\ ~calls[2].ok) =>
          (calls[1].ok /\ IsDir(fs, target))

\* the folder of p holds a/b.py, packages_path() gave no path, p.a is cached
C14_Witness ==
    /\ Scanned
    /\ ~calls[1].ok
    /\ target = N_P
    /\ F_A_B \in fs
    /\ N_PA \in cache
    /\ all_modules = {N_P, N_PA}
    /\ plugin_modules = {N_P}

\* C15: the first loop of step 4 makes exactly one import attempt for every
\* member of all_modules, in ascending order of the lists of their segments,
\* so a package before the modules below it; an import that raises is passed
\* over and the loop goes on with the next name
C15_ImportSequence ==
    [][/\ (pc # "r_import" /\ pc' = "r_import") =>
              /\ Len(modules_to_import') = Cardinality(all_modules')
              /\ {modules_to_import'[i] : i \in DOMAIN modules_to_import'} = all_modules'
              /\ \A i, j \in DOMAIN modules_to_import' :
                    /\ i < j => ListLess(Split(modules_to_import'[i]),
                                         Split(modules_to_import'[j]))
                    /\ StartsWith(modules_to_import'[j],
                                  modules_to_import'[i] \o <<DOT>>) => i < j
       /\ pc = "r_import" =>
              /\ modules_to_import # <<>>
              /\ Len(calls') = 1
              /\ calls'[1].kind = "import"
              /\ calls'[1].name = Head(modules_to_import)
              /\ modules_to_import' = Tail(modules_to_import)
              /\ all_modules' = all_modules
              /\ pc' = (IF modules_to_import' = <<>> THEN "r_hooks" ELSE "r_import")]_vars

\* the import of p has raised; p.a and p.a.b are still to be attempted
C15_Witness ==
    /\ pc = "r_import"
    /\ calls = <<Call("import", N_P, FALSE)>>
    /\ all_modules = {N_P, N_PA, N_PAB}
    /\ modules_to_import = <<N_PA, N_PAB>>

\* C16: when the fallback of reload_plugins runs for an entry, every source
\* file under the package folder gets the import attempt and then the named
\* reload of its module name, whether the import raised or not, and no raise
\* of an import or of a named reload keeps the other files from their turn
C16_EveryFileReloaded ==
    /\ (TurnOver /\ fallback \in {"walked", "raised"}) =>
          \A f \in SourceFiles(fs, target) : ModuleName(f) \in reloaded
    /\ \A i \in CallsOf({"fb_import"}) :
          /\ i + 1 \in CallsOf({"fb_named"})
          /\ calls[i + 1].name = calls[i].name

\* the appends of a text to a log file the last step made
Appends == {i \in DOMAIN effects : effects[i].kind = "file" /\ effects[i].text # <<>>}

\* C17: with file logging enabled, after plugin_loaded and plugin_unloaded
\* sys.stdout and sys.stderr are the streams of the host again, no
\* ConsoleCapture of the listener or of _setup_console_capture is left in
\* place; and while the plugin is loaded a text written to sys.stdout is
\* appended to the log file at most once
C17_StreamsRestored ==
    settings.enable_file_logging =>
        /\ phase = "unloaded" => (sys_stdout = HostOut /\ sys_stderr = HostErr)
        /\ (phase = "loaded" /\ op.name = "write" /\ op.stream = sys_stdout) =>
              Cardinality(Appends) <= 1

\* C18: get_listener_instance() of the commands raises RuntimeError before
\* plugin_loaded has run, and returns the listener, raising nothing, after
C18_ListenerLookup ==
    op.name = "get_listener_instance" =>
        ret = (IF phase = "fresh" THEN "RuntimeError" ELSE "listener")

\* a stream is the recorded original, or one ConsoleCapture around it
SingleCapture(stream, original) ==
    IF IsCapture(stream)
    THEN OriginalStream(stream) = original /\ ~IsCapture(original)
    ELSE original # NoStream => stream = original

\* a is the beginning of b
IsPrefix(a, b) == Len(a) <= Len(b) /\ SubSeq(b, 1, Len(a)) = a

\* C19: whatever setup_console_capture and cleanup_console_capture calls are
\* made, sys.stdout (sys.stderr) is the stream recorded as the original or one
\* ConsoleCapture around it, never a ConsoleCapture around a ConsoleCapture; a
\* setup call made while capture is set up returns True and changes nothing;
\* after a cleanup call the two streams are the recorded originals
C19_CaptureNeverNests ==
    [][/\ SingleCapture(sys_stdout', original_stdout')
       /\ SingleCapture(sys_stderr', original_stderr')
       /\ (setup_complete /\ op'.name = "setup") =>
              /\ ret' = "True"
              /\ UNCHANGED <<sys_stdout, sys_stderr, original_stdout, original_stderr,
                             setup_complete, log_files>>
       /\ (op'.name = "cleanup"
              /\ (original_stdout' # NoStream \/ original_stderr' # NoStream)) =>
              /\ sys_stdout' = original_stdout'
              /\ sys_stderr' = original_stderr']_vars

\* a setup call has returned True with capture set up, after "a" went through
\* the capture into the log file
C19_Witness ==
    /\ op.name = "setup"
    /\ ret = "True"
    /\ setup_complete
    /\ sys_stdout = Capture(HostOut, CAPTURE_LOG)
    /\ sys_stderr = Capture(HostErr, CAPTURE_LOG)
    /\ original_stdout = HostOut
    /\ settings.rewrite_log_file
    /\ log_files[CAPTURE_LOG] = <<<<"a", "\n">>>>

\* C20: ConsoleCapture.write hands the text to the original stream before it
\* touches the log file; an exception of opening or writing the file does not
\* leave write; a text of whitespace alone is not written to the file; and
\* write only appends to the log file: what was in it stays, in place
C20_BestEffortWrite ==
    [][(op'.name = "write" /\ IsCapture(op'.stream)) =>
          LET s == op'.stream
              text == op'.text
              blank == \A i \in DOMAIN text : text[i] \in {" ", "\n"}
              fileEffects == {i \in DOMAIN effects' : effects'[i].kind = "file"}
          IN  /\ effects' # <<>>
              /\ effects'[1] = Effect("stream", Head(OriginalStream(s)), text,
                                      effects'[1].ok)
              /\ ret' = (IF effects'[1].ok THEN "None" ELSE "raised")
              /\ (blank \/ ~effects'[1].ok) =>
                    (fileEffects = {} /\ log_files' = log_files)
              /\ (~blank /\ effects'[1].ok) =>
                    /\ fileEffects = {2}
                    /\ effects'[2].where = LogFilePath(s)
                    /\ effects'[2].ok =>
                          log_files'[LogFilePath(s)] =
                              Append(log_files[LogFilePath(s)],
                                     IF text[Len(text)] = "\n" THEN text
                                     ELSE text \o <<"\n">>)
              /\ \A p \in Paths :
                    /\ IsPrefix(log_files[p], log_files'[p])
                    /\ p # LogFilePath(s) => log_files'[p] = log_files[p]]_vars

\* "a" reached the original stream, the log file could not be opened, and
\* write returned
C20_Witness ==
    /\ op = Op("write", Capture(HostOut, CAPTURE_LOG), <<"a">>)
    /\ ret = "None"
    /\ effects = <<Effect("stream", "stdout", <<"a">>, TRUE),
                   Effect("file", CAPTURE_LOG, <<>>, FALSE)>>

====
